---- MODULE Spec2Model ----
(***************************************************************************)
(* Model of the hfppl particle (hfppl/model.py, class Model) and of the    *)
(* two distribution variants it is used with                               *)
(* (hfppl/distributions/geometric.py, tokencategorical.py).                *)
(*                                                                         *)
(* Log-space quantities are Python floats.  They are modelled as extended  *)
(* values: a finite value n (an integer multiple of the unit ln 2, so that *)
(* log(1/2) = -1 and IEEE addition of the modelled values is exact), -inf, *)
(* +inf and NaN, with the IEEE-754 rules for the special values.           *)
(***************************************************************************)
EXTENDS Integers, Sequences, FiniteSets, TLC

(* ------------------------------ bounds --------------------------------- *)
\* largest magnitude of a finite weight / twist_amount kept in the model
MaxW == 2
\* largest beam_idx the driver selects
MaxBeam == 1
\* longest run of consecutive score calls that is tracked
MaxRun == 3
\* largest outcome of a Geometric distribution that is considered
MaxDraw == 3
\* number of objects the heap of the fork scenario can hold
MaxObj == 7
\* number of in-place mutations and rebindings made in the fork scenario
MaxMut == 1
\* number of primitive calls made in the fork scenario
MaxPrims == 2
\* number of calls the particles of the asynchronous scenario make in all
MaxCalls == 3

(* ------------------------- float arithmetic ---------------------------- *)
Fin(n) == [t |-> "fin", v |-> n]
NegInf == [t |-> "ninf", v |-> 0]
PosInf == [t |-> "pinf", v |-> 0]
NaN == [t |-> "nan", v |-> 0]

IsFin(a) == a.t = "fin"

\* float + float
Add(a, b) ==
  IF a.t = "nan" \/ b.t = "nan" THEN NaN
  ELSE IF a.t = "fin" /\ b.t = "fin" THEN Fin(a.v + b.v)
  ELSE IF a.t = "fin" THEN b
  ELSE IF b.t = "fin" THEN a
  ELSE IF a.t = b.t THEN a
  ELSE NaN

\* unary minus
Neg(a) ==
  CASE a.t = "fin" -> Fin(0 - a.v)
    [] a.t = "ninf" -> PosInf
    [] a.t = "pinf" -> NegInf
    [] OTHER -> NaN

\* float - float
Sub(a, b) == Add(a, Neg(b))

\* float * int
Mul(a, k) ==
  CASE a.t = "nan" -> NaN
    [] a.t = "fin" -> Fin(a.v * k)
    [] k = 0 -> NaN
    [] k > 0 -> a
    [] OTHER -> Neg(a)

\* a <= b on floats (false when either is NaN)
Leq(a, b) ==
  /\ a.t # "nan" /\ b.t # "nan"
  /\ \/ a.t = "ninf"
     \/ b.t = "pinf"
     \/ a.t = "fin" /\ b.t = "fin" /\ a.v <= b.v

Lt(a, b) == Leq(a, b) /\ a # b

(* ------------------------------ values --------------------------------- *)
IntV(n) == [ty |-> "int", n |-> n]
Token(n) == [ty |-> "Token", n |-> n]
None == [ty |-> "None", n |-> 0]

\* result of a call on a distribution: an exception, or a returned object
\* that is a pair (x, w) or a bare value x
Raise(e) == [exc |-> e, pair |-> FALSE, x |-> None, w |-> NaN]
Pair(x, w) == [exc |-> "", pair |-> TRUE, x |-> x, w |-> w]
Bare(x) == [exc |-> "", pair |-> FALSE, x |-> x, w |-> NaN]
\* a returned float
Float(w) == [exc |-> "", pair |-> FALSE, x |-> None, w |-> w]

(* --------------------------- distributions ----------------------------- *)
\* names bound at module level by the import statements of each file
geometric_globals == {"Distribution"}
tokencategorical_globals == {"Distribution", "log_softmax", "Token", "np"}

\* a probability is a rational <<num, den>>; np.log of it in units of ln 2
\* (exact for 0 and for the powers of two used here)
Half == <<1, 2>>
One == <<1, 1>>
OneMinus(p) == <<p[2] - p[1], p[2]>>

RECURSIVE Pow2(_)
Pow2(e) == IF e <= 0 THEN 1 ELSE 2 * Pow2(e - 1)

np_log(p) ==
  IF p[1] = 0 THEN NegInf
  ELSE Fin(0 - (CHOOSE e \in 0..8 : p[2] = p[1] * Pow2(e)))

Geometric(p) == [kind |-> "Geometric", p |-> p, log_probs |-> <<>>]

\* geometric.py line 18, the expression itself
Geometric_log_prob_expr(d, value) ==
  IF value.ty # "int" THEN Raise("TypeError")
  ELSE Float(Add(np_log(d.p), Mul(np_log(OneMinus(d.p)), value.n - 1)))

\* Geometric.log_prob: the name np is looked up first
Geometric_log_prob(d, value) ==
  IF "np" \notin geometric_globals THEN Raise("NameError")
  ELSE Geometric_log_prob_expr(d, value)

\* Geometric.sample: the set of possible results
Geometric_sample(d) ==
  IF "np" \notin geometric_globals THEN {Raise("NameError")}
  ELSE {Pair(IntV(n), Geometric_log_prob(d, IntV(n)).w) : n \in 1..MaxDraw}

\* Geometric.argmax returns the number idx - 1, not a pair
Geometric_argmax(d, idx) == Bare(IntV(idx - 1))

\* util.log_softmax: logits[i] - log(sum_j exp(logits[j]))
FiniteLogits(logits) == {i \in DOMAIN logits : IsFin(logits[i])}
MinLogit(logits) ==
  CHOOSE m \in {logits[i].v : i \in FiniteLogits(logits)} :
    \A i \in FiniteLogits(logits) : m <= logits[i].v
RECURSIVE SumPow2(_, _, _)
SumPow2(logits, m, i) ==
  IF i = 0 THEN 0
  ELSE SumPow2(logits, m, i - 1)
       + (IF IsFin(logits[i]) THEN Pow2(logits[i].v - m) ELSE 0)
LogSumExp(logits) ==
  LET m == MinLogit(logits)
      s == SumPow2(logits, m, Len(logits))
  IN m + (CHOOSE e \in 0..8 : Pow2(e) = s)
log_softmax(logits) ==
  [i \in DOMAIN logits |-> Sub(logits[i], Fin(LogSumExp(logits)))]

\* TokenCategorical.__init__: the object, or the RuntimeError it raises
TokenCategorical(lm, logits) ==
  IF lm.vocab_size # Len(logits) THEN Raise("RuntimeError")
  ELSE Bare([kind |-> "TokenCategorical", p |-> One,
             log_probs |-> log_softmax(logits)])

\* token ids with exp(log_probs[id]) > 0; ids count from 0
Support(d) == {n \in 0..(Len(d.log_probs) - 1) : d.log_probs[n + 1] # NegInf}

\* TokenCategorical.sample: the set of possible results
TokenCategorical_sample(d) ==
  {Pair(Token(n), d.log_probs[n + 1]) : n \in Support(d)}

\* TokenCategorical.log_prob: self.log_probs[value.token_id]
TokenCategorical_log_prob(d, value) ==
  IF value.ty # "Token" THEN Raise("AttributeError")
  ELSE IF value.n >= Len(d.log_probs) THEN Raise("IndexError")
  ELSE Float(d.log_probs[value.n + 1])

\* argsort(log_probs): token ids in ascending order of log-probability
\* (position i counts from 0; equal entries keep the order of their ids)
Before(d, a, b) ==
  \/ Lt(d.log_probs[a + 1], d.log_probs[b + 1])
  \/ d.log_probs[a + 1] = d.log_probs[b + 1] /\ a < b
argsort(d) ==
  [i \in 0..(Len(d.log_probs) - 1) |->
     CHOOSE a \in 0..(Len(d.log_probs) - 1) :
       Cardinality({b \in 0..(Len(d.log_probs) - 1) : Before(d, b, a)}) = i]

\* tokencategorical.py lines 22-23, the expressions themselves:
\* argsort(...)[-idx] is element 0 for idx = 0 and element len - idx otherwise
TokenCategorical_argmax_expr(d, idx) ==
  LET n == Len(d.log_probs)
      tok == argsort(d)[IF idx = 0 THEN 0 ELSE n - idx]
  IN IF idx > n THEN Raise("IndexError")
     ELSE Pair(Token(tok), d.log_probs[tok + 1])

\* TokenCategorical.argmax: the name torch is looked up first
TokenCategorical_argmax(d, idx) ==
  IF "torch" \notin tokencategorical_globals THEN Raise("NameError")
  ELSE TokenCategorical_argmax_expr(d, idx)

\* a distribution supplied by the caller that meets the Distribution
\* contract: outcomes are the tokens 0..n-1 with the given log-probabilities
Contract(log_probs) == [kind |-> "Contract", p |-> One, log_probs |-> log_probs]
Contract_sample(d) ==
  {Pair(Token(n), d.log_probs[n + 1]) : n \in Support(d)}
Contract_log_prob(d, value) ==
  IF value.ty = "Token" /\ value.n < Len(d.log_probs)
  THEN Float(d.log_probs[value.n + 1])
  ELSE Float(NegInf)
\* k-th most probable outcome, counted from 0, most likely first
Contract_argmax(d, k) ==
  LET n == Len(d.log_probs)
      tok == argsort(d)[n - 1 - k]
  IN IF k >= n THEN Raise("IndexError")
     ELSE Pair(Token(tok), d.log_probs[tok + 1])

\* dynamic dispatch on the distribution object
dist_sample(d) ==
  CASE d.kind = "Geometric" -> Geometric_sample(d)
    [] d.kind = "TokenCategorical" -> TokenCategorical_sample(d)
    [] OTHER -> Contract_sample(d)
dist_log_prob(d, x) ==
  CASE d.kind = "Geometric" -> Geometric_log_prob(d, x)
    [] d.kind = "TokenCategorical" -> TokenCategorical_log_prob(d, x)
    [] OTHER -> Contract_log_prob(d, x)
dist_argmax(d, idx) ==
  CASE d.kind = "Geometric" -> Geometric_argmax(d, idx)
    [] d.kind = "TokenCategorical" -> TokenCategorical_argmax(d, idx)
    [] OTHER -> Contract_argmax(d, idx)

\* the distributions and values the calls are made with
LM == [vocab_size |-> 3]
Logits == {<<Fin(0), Fin(-1), Fin(-1)>>, <<Fin(1), NegInf, Fin(1)>>}
Dists ==
  {Geometric(Half)}
  \cup {TokenCategorical(LM, l).x : l \in Logits}
  \cup {Contract(<<Fin(-2), Fin(-1), Fin(-2)>>)}
Values == {Token(0), Token(1), IntV(3)}
NoProposal == [kind |-> "None", p |-> One, log_probs |-> <<>>]

(* ------------------------------ particle ------------------------------- *)
VARIABLES
  weight,        \* self.weight
  finished,      \* self.finished
  mode,          \* self.mode
  beam_idx,      \* self.beam_idx
  force_eos,     \* self.force_eos
  twist_amount,  \* self.twist_amount
  last,          \* the last call made: its arguments, its outcome, the state before it
  tw,            \* state before a twist that has just been made or just been untwisted
  run,           \* the current run of consecutive score calls and the state it began in
  condFalse,     \* condition(False) has been called since construction or reset
  heap,          \* fork scenario: the mutable objects (lists) that attributes refer to
  pt,            \* fork scenario: the original particle (1) and its clone (2)
  immutable,     \* fork scenario: what immutable_properties() of the subclass returns
  flast,         \* fork scenario: the last operation, who made it, and the counters
  ap,            \* asynchronous scenario: the particles and their coroutines
  alast          \* asynchronous scenario: the last step, who made it, the value resolved

forkvars == <<heap, pt, immutable, flast>>
asyncvars == <<ap, alast>>
vars == <<weight, finished, mode, beam_idx, force_eos, twist_amount,
          last, tw, run, condFalse, heap, pt, immutable, flast, ap, alast>>

\* the particle as one object
Self ==
  [weight |-> weight, finished |-> finished, mode |-> mode,
   beam_idx |-> beam_idx, force_eos |-> force_eos, twist_amount |-> twist_amount]

\* Model.__init__
init ==
  [weight |-> Fin(0), finished |-> FALSE, mode |-> "sample",
   beam_idx |-> 0, force_eos |-> FALSE, twist_amount |-> Fin(0)]

\* reset that leaves the particle in the mode it was in
reset_keeps_mode(s) ==
  [s EXCEPT !.weight = Fin(0), !.finished = FALSE,
            !.force_eos = FALSE, !.twist_amount = Fin(0)]

\* Model.reset
reset(s) ==
  [s EXCEPT !.weight = Fin(0), !.finished = FALSE, !.mode = "sample",
            !.beam_idx = 0, !.force_eos = FALSE, !.twist_amount = Fin(0)]

\* score that overwrites the weight instead of adding to it
score_overwrites(s, sc) == [s EXCEPT !.weight = sc]

\* Model.score
score(s, sc) == [s EXCEPT !.weight = Add(s.weight, sc)]

\* twist that records only the latest amount
twist_overwrites(s, amt) == score([s EXCEPT !.twist_amount = amt], amt)

\* Model.twist
twist(s, amt) == score([s EXCEPT !.twist_amount = Add(s.twist_amount, amt)], amt)

\* Model.untwist
untwist(s) == [score(s, Neg(s.twist_amount)) EXCEPT !.twist_amount = Fin(0)]

\* finish that forgets to untwist
finish_keeps_twist(s) == [s EXCEPT !.finished = TRUE]

\* Model.finish
finish(s) == [untwist(s) EXCEPT !.finished = TRUE]

\* Model.done_stepping
done_stepping(s) == s.finished

\* outcome of a method call: the particle after it, the exception raised
\* (if any), the value returned, and the distribution methods it called
Returns(s, ret, calls) == [s |-> s, exc |-> "", ret |-> ret, calls |-> calls]
Raises(s, e, calls) == [s |-> s, exc |-> e, ret |-> None, calls |-> calls]

\* step with the test on done_stepping inverted
step_inverted(s) ==
  IF done_stepping(s) THEN Raises(s, "NotImplementedError", <<>>)
  ELSE Returns(s, None, <<>>)

\* Model.step of a class that does not override it
step(s) ==
  IF ~done_stepping(s) THEN Raises(s, "NotImplementedError", <<>>)
  ELSE Returns(s, None, <<>>)

\* Model.condition
condition(s, b) == IF ~b THEN finish(score(s, NegInf)) ELSE s

\* observe that finishes the particle when the observation is impossible
observe_finishes(s, dist, x) ==
  LET r == dist_log_prob(dist, x)
  IN IF r.exc # "" THEN Raises(s, r.exc, <<"dist.log_prob">>)
     ELSE IF r.w = NegInf THEN Returns(finish(score(s, r.w)), x, <<"dist.log_prob">>)
     ELSE Returns(score(s, r.w), x, <<"dist.log_prob">>)

\* Model.observe
observe(s, dist, x) ==
  LET r == dist_log_prob(dist, x)
  IN IF r.exc # "" THEN Raises(s, r.exc, <<"dist.log_prob">>)
     ELSE Returns(score(s, r.w), x, <<"dist.log_prob">>)

\* do that scores the log-probability it evaluates
do_scores(s, dist, x) ==
  LET r == dist_log_prob(dist, x)
  IN IF r.exc # "" THEN Raises(s, r.exc, <<"dist.log_prob">>)
     ELSE Returns(score(s, r.w), x, <<"dist.log_prob">>)

\* Model.do
do(s, dist, x) ==
  LET r == dist_log_prob(dist, x)
  IN IF r.exc # "" THEN Raises(s, r.exc, <<"dist.log_prob">>)
     ELSE Returns(s, x, <<"dist.log_prob">>)

\* beam branch that always scores with the value argmax returned
sample_beam_scores_w(s, dist, proposal) ==
  LET d == IF proposal = NoProposal THEN dist ELSE proposal
      r == dist_argmax(d, s.beam_idx)
  IN IF r.exc # "" THEN Raises(s, r.exc, <<"d.argmax">>)
     ELSE IF ~r.pair THEN Raises(s, "TypeError", <<"d.argmax">>)
     ELSE Returns(score(s, r.w), r.x, <<"d.argmax">>)

\* Model.sample, lines 236-243: the beam-search branch
sample_beam(s, dist, proposal) ==
  LET d == IF proposal = NoProposal THEN dist ELSE proposal
      r == dist_argmax(d, s.beam_idx)
      lp == dist_log_prob(dist, r.x)
  IN IF r.exc # "" THEN Raises(s, r.exc, <<"d.argmax">>)
     ELSE IF ~r.pair THEN Raises(s, "TypeError", <<"d.argmax">>)
     ELSE IF proposal # NoProposal
     THEN IF lp.exc # "" THEN Raises(s, lp.exc, <<"d.argmax", "dist.log_prob">>)
          ELSE Returns(score(s, lp.w), r.x, <<"d.argmax", "dist.log_prob">>)
     ELSE Returns(score(s, r.w), r.x, <<"d.argmax">>)

\* Model.sample, lines 246-248: no proposal; r is what dist.sample() gave
sample_direct(s, dist, r) ==
  IF r.exc # "" THEN Raises(s, r.exc, <<"dist.sample">>)
  ELSE Returns(s, r.x, <<"dist.sample">>)

\* proposal branch that forgets to divide by the proposal's probability
sample_proposal_uncorrected(s, dist, r) ==
  LET lp == dist_log_prob(dist, r.x)
  IN IF r.exc # "" THEN Raises(s, r.exc, <<"proposal.sample">>)
     ELSE IF lp.exc # ""
     THEN Raises(s, lp.exc, <<"proposal.sample", "dist.log_prob">>)
     ELSE Returns(score(s, lp.w), r.x, <<"proposal.sample", "dist.log_prob">>)

\* proposal branch with the ratio upside down
sample_proposal_inverted(s, dist, r) ==
  LET lp == dist_log_prob(dist, r.x)
  IN IF r.exc # "" THEN Raises(s, r.exc, <<"proposal.sample">>)
     ELSE IF lp.exc # ""
     THEN Raises(s, lp.exc, <<"proposal.sample", "dist.log_prob">>)
     ELSE Returns(score(s, Sub(r.w, lp.w)), r.x,
                  <<"proposal.sample", "dist.log_prob">>)

\* Model.sample, lines 250-253: r is what proposal.sample() gave
sample_proposal(s, dist, r) ==
  LET lp == dist_log_prob(dist, r.x)
  IN IF r.exc # "" THEN Raises(s, r.exc, <<"proposal.sample">>)
     ELSE IF lp.exc # ""
     THEN Raises(s, lp.exc, <<"proposal.sample", "dist.log_prob">>)
     ELSE Returns(score(s, Sub(lp.w, r.w)), r.x,
                  <<"proposal.sample", "dist.log_prob">>)

\* Model.sample: the set of possible outcomes
sample(s, dist, proposal) ==
  IF s.mode = "beam" THEN {sample_beam(s, dist, proposal)}
  ELSE IF proposal = NoProposal
  THEN {sample_direct(s, dist, r) : r \in dist_sample(dist)}
  ELSE {sample_proposal(s, dist, r) : r \in dist_sample(proposal)}


(* ----------------------- asynchronous primitives ----------------------- *)
\* a coroutine of a primitive: the primitive, the await it is suspended at
\* ("start" before it has run, "idle" when there is none), its arguments,
\* its local variables x and q, and the query it awaits
NoQuery == [m |-> "", d |-> NoProposal, x |-> None]
Frame(op, at, dist, proposal, x, q) ==
  [op |-> op, at |-> at, dist |-> dist, proposal |-> proposal, x |-> x, q |-> q,
   query |-> NoQuery]
NoFrame == Frame("", "idle", NoProposal, NoProposal, None, Fin(0))

\* Distribution.sample_async and Distribution.log_prob_async resolve to what
\* sample and log_prob return
dist_sample_async(d) == dist_sample(d)
dist_log_prob_async(d, x) == dist_log_prob(d, x)
\* the values the query awaited by a coroutine can resolve to
Awaited(fr) ==
  IF fr.query.m = "sample_async" THEN dist_sample_async(fr.query.d)
  ELSE {dist_log_prob_async(fr.query.d, fr.query.x)}

\* a run of a coroutine from where it is to its next await, or to its end;
\* ev lists what the run did, in order
Suspends(s, fr, at, m, d, x, ev) ==
  [s |-> s, fr |-> [fr EXCEPT !.at = at, !.query = [m |-> m, d |-> d, x |-> x]],
   exc |-> "", ret |-> None, ev |-> ev]
Ends(o, ev) == [s |-> o.s, fr |-> NoFrame, exc |-> o.exc, ret |-> o.ret, ev |-> ev]

\* Model.do_async: await dist.log_prob(x) calls log_prob and awaits the float
\* it returns
do_async(s, fr) ==
  LET lp == dist_log_prob(fr.dist, fr.x)
  IN IF lp.exc # "" THEN Ends(Raises(s, lp.exc, <<>>), <<"dist.log_prob">>)
     ELSE Ends(Raises(s, "TypeError", <<>>), <<"dist.log_prob">>)

\* Model.observe_async; r is the value the await resumes with
observe_async(s, fr, r) ==
  IF fr.at = "start"
  THEN Suspends(s, fr, "log_prob", "log_prob_async", fr.dist, fr.x,
                <<"dist.log_prob_async">>)
  ELSE IF r.exc # "" THEN Ends(Raises(s, r.exc, <<>>), <<>>)
  ELSE Ends(Returns(score(s, r.w), fr.x, <<>>), <<"score">>)

\* sample_async that divides by the proposal's probability as soon as the
\* proposal's sample arrives, and multiplies by the target's later
sample_async_scores_early(s, fr, r) ==
  IF fr.at = "start"
  THEN IF fr.proposal = NoProposal
       THEN Suspends(s, fr, "sample", "sample_async", fr.dist, None,
                     <<"dist.sample_async">>)
       ELSE Suspends(s, fr, "sample", "sample_async", fr.proposal, None,
                     <<"proposal.sample_async">>)
  ELSE IF r.exc # "" THEN Ends(Raises(s, r.exc, <<>>), <<>>)
  ELSE IF fr.at = "sample"
  THEN IF ~r.pair THEN Ends(Raises(s, "TypeError", <<>>), <<>>)
       ELSE IF fr.proposal = NoProposal THEN Ends(Returns(s, r.x, <<>>), <<>>)
       ELSE Suspends(score(s, Neg(r.w)), [fr EXCEPT !.x = r.x, !.q = r.w],
                     "log_prob", "log_prob_async", fr.dist, r.x,
                     <<"score", "dist.log_prob_async">>)
  ELSE Ends(Returns(score(s, r.w), fr.x, <<>>), <<"score">>)

\* Model.sample_async; r is the value the await resumes with
sample_async(s, fr, r) ==
  IF fr.at = "start"
  THEN IF fr.proposal = NoProposal
       THEN Suspends(s, fr, "sample", "sample_async", fr.dist, None,
                     <<"dist.sample_async">>)
       ELSE Suspends(s, fr, "sample", "sample_async", fr.proposal, None,
                     <<"proposal.sample_async">>)
  ELSE IF r.exc # "" THEN Ends(Raises(s, r.exc, <<>>), <<>>)
  ELSE IF fr.at = "sample"
  THEN IF ~r.pair THEN Ends(Raises(s, "TypeError", <<>>), <<>>)
       ELSE IF fr.proposal = NoProposal THEN Ends(Returns(s, r.x, <<>>), <<>>)
       ELSE Suspends(s, [fr EXCEPT !.x = r.x, !.q = r.w],
                     "log_prob", "log_prob_async", fr.dist, r.x,
                     <<"dist.log_prob_async">>)
  ELSE Ends(Returns(score(s, Sub(r.w, fr.q)), fr.x, <<>>), <<"score">>)

\* the particles of the asynchronous scenario after construction; pre is
\* the particle as it was when the primitive it is inside was called
Ap0 ==
  [i \in 1..2 |->
     [s |-> init, fr |-> NoFrame, pre |-> init, ev |-> <<>>]]
NoStep ==
  [who |-> 0, op |-> "", fr |-> NoFrame, r |-> Raise(""), pre |-> init,
   done |-> FALSE, exc |-> "", ret |-> None, ev |-> <<>>, n |-> 0]
\* the distributions the asynchronous calls are made with
Targets == {d \in Dists : d.kind = "Geometric" \/ NegInf \in {d.log_probs[k] : k \in DOMAIN d.log_probs}}
Proposals == {NoProposal} \cup {d \in Dists : d.kind = "Contract"}

(* ------------------- subclass attributes and cloning ------------------- *)
\* an attribute value or list element: a plain number, or a reference to a
\* mutable object (a list) on the heap
IntCell(n) == [ref |-> FALSE, v |-> n]
Ref(o) == [ref |-> TRUE, v |-> o]
Obj(items) == [used |-> TRUE, items |-> items]
Unused == [used |-> FALSE, items |-> <<>>]

\* attributes a subclass defines besides the six of Model
Attrs == {"ctx", "hist"}

\* objects an object refers to, and everything reachable from a set of objects
Refs(obj) == {obj.items[i].v : i \in {j \in DOMAIN obj.items : obj.items[j].ref}}
RECURSIVE Reach(_, _, _)
Reach(h, S, n) ==
  IF n = 0 THEN S ELSE Reach(h, S \cup UNION {Refs(h[o]) : o \in S}, n - 1)
Roots(s, names) == {s[a].v : a \in {b \in names : s[b].ref}}
Reachable(h, s, names) == Reach(h, Roots(s, names), MaxObj)
FreeIds(h) == {o \in DOMAIN h : ~h[o].used}
Rank(S, x) == Cardinality({y \in S : y < x})

\* the memo of a deep copy: each object copied gets a new object of its own
Memo(h, R) ==
  [o \in R |-> CHOOSE f \in FreeIds(h) : Rank(FreeIds(h), f) = Rank(R, o)]
CopyCell(c, m) == IF c.ref THEN Ref(m[c.v]) ELSE c

\* copy that duplicates only the object an attribute refers to directly
deepcopy_shallow(s, h, imm) ==
  LET names == Attrs \ imm
      R == Roots(s, names)
      m == Memo(h, R)
  IN [cpy |-> [a \in DOMAIN s |-> IF a \in names THEN CopyCell(s[a], m) ELSE s[a]],
      heap |-> [o \in DOMAIN h |->
                  IF \E r \in R : m[r] = o
                  THEN h[CHOOSE r \in R : m[r] = o]
                  ELSE h[o]]]

\* copy that ignores immutable_properties()
deepcopy_everything(s, h, imm) ==
  LET R == Reachable(h, s, Attrs)
      m == Memo(h, R)
  IN [cpy |-> [a \in DOMAIN s |-> IF a \in Attrs THEN CopyCell(s[a], m) ELSE s[a]],
      heap |-> [o \in DOMAIN h |->
                  IF \E r \in R : m[r] = o
                  THEN LET r == CHOOSE x \in R : m[x] = o
                       IN Obj([i \in DOMAIN h[r].items |-> CopyCell(h[r].items[i], m)])
                  ELSE h[o]]]

\* Model.__deepcopy__: attributes named in imm are set to the same value,
\* every other attribute to copy.deepcopy(v, memo); gives the clone and the
\* heap with the copied objects in it
deepcopy(s, h, imm) ==
  LET names == Attrs \ imm
      R == Reachable(h, s, names)
      m == Memo(h, R)
  IN [cpy |-> [a \in DOMAIN s |-> IF a \in names THEN CopyCell(s[a], m) ELSE s[a]],
      heap |-> [o \in DOMAIN h |->
                  IF \E r \in R : m[r] = o
                  THEN LET r == CHOOSE x \in R : m[x] = o
                       IN Obj([i \in DOMAIN h[r].items |-> CopyCell(h[r].items[i], m)])
                  ELSE h[o]]]

\* the value of an attribute with the lists it refers to written out
RECURSIVE DeepVal(_, _, _)
DeepVal(h, c, n) ==
  IF ~c.ref \/ n = 0 THEN [list |-> FALSE, v |-> c.v, items |-> <<>>]
  ELSE [list |-> TRUE, v |-> 0,
        items |-> [i \in DOMAIN h[c.v].items |-> DeepVal(h, h[c.v].items[i], n - 1)]]
\* a particle as it looks from outside: every attribute by value
View(h, s) ==
  [a \in DOMAIN s |-> IF a \in Attrs THEN DeepVal(h, s[a], MaxObj) ELSE s[a]]
Base(s) ==
  [weight |-> s.weight, finished |-> s.finished, mode |-> s.mode,
   beam_idx |-> s.beam_idx, force_eos |-> s.force_eos,
   twist_amount |-> s.twist_amount]

\* a particle of a subclass after construction: ctx is a list of numbers,
\* hist a list that holds another list
Subclass0 ==
  [weight |-> Fin(0), finished |-> FALSE, mode |-> "sample", beam_idx |-> 0,
   force_eos |-> FALSE, twist_amount |-> Fin(0),
   ctx |-> Ref(1), hist |-> Ref(2)]
NoParticle ==
  [weight |-> NaN, finished |-> TRUE, mode |-> "none", beam_idx |-> 0,
   force_eos |-> FALSE, twist_amount |-> NaN,
   ctx |-> IntCell(0), hist |-> IntCell(0)]
Heap0 ==
  [o \in 1..MaxObj |->
     CASE o = 1 -> Obj(<<IntCell(5)>>)
       [] o = 2 -> Obj(<<Ref(3), Ref(1)>>)
       [] o = 3 -> Obj(<<IntCell(6)>>)
       [] OTHER -> Unused]
NoFork ==
  [op |-> "", who |-> 0, obj |-> 0, nmut |-> 0, nprim |-> 0, pre |-> Base(Subclass0)]

(* ------------------------------ actions -------------------------------- *)
\* amounts passed to score and twist: finite logs and log(0)
Amts == {Fin(-1), Fin(1), NegInf}

NoArgs ==
  [amt |-> Fin(0), b |-> TRUE, dist |-> NoProposal, proposal |-> NoProposal,
   x |-> None, k |-> 0, res |-> Raise("")]
NoTw == [st |-> "none", pre |-> init, amt |-> Fin(0)]
NoRun == [pre |-> init, amts |-> <<>>]

\* finite values stay within the modelled range
InRange(s) ==
  /\ IsFin(s.weight) => (s.weight.v <= MaxW /\ 0 - s.weight.v <= MaxW)
  /\ IsFin(s.twist_amount) =>
       (s.twist_amount.v <= MaxW /\ 0 - s.twist_amount.v <= MaxW)

\* the call op(args) had outcome o
Call(op, args, o) ==
  /\ InRange(o.s)
  /\ weight' = o.s.weight
  /\ finished' = o.s.finished
  /\ mode' = o.s.mode
  /\ beam_idx' = o.s.beam_idx
  /\ force_eos' = o.s.force_eos
  /\ twist_amount' = o.s.twist_amount
  /\ last' = [op |-> op, amt |-> args.amt, b |-> args.b, dist |-> args.dist,
              proposal |-> args.proposal, x |-> args.x, k |-> args.k,
              res |-> args.res, exc |-> o.exc, ret |-> o.ret, calls |-> o.calls, pre |-> Self]
  /\ UNCHANGED <<forkvars, asyncvars>>

InitSelf ==
  /\ weight = init.weight
  /\ finished = init.finished
  /\ mode = init.mode
  /\ beam_idx = init.beam_idx
  /\ force_eos = init.force_eos
  /\ twist_amount = init.twist_amount
  /\ last = [op |-> "__init__", amt |-> NoArgs.amt, b |-> NoArgs.b,
             dist |-> NoArgs.dist, proposal |-> NoArgs.proposal,
             x |-> NoArgs.x, k |-> NoArgs.k, res |-> NoArgs.res,
             exc |-> "", ret |-> None, calls |-> <<>>, pre |-> init]
  /\ tw = NoTw
  /\ run = NoRun
  /\ condFalse = FALSE

Init ==
  /\ InitSelf
  /\ heap = Heap0
  /\ pt = [i \in 1..2 |-> IF i = 1 THEN Subclass0 ELSE NoParticle]
  /\ immutable = {}
  /\ flast = NoFork
  /\ ap = Ap0
  /\ alast = NoStep

Score ==
  \E amt \in Amts :
    /\ Call("score", [NoArgs EXCEPT !.amt = amt], Returns(score(Self, amt), None, <<>>))
    /\ run' = IF last.op = "score" /\ Len(run.amts) < MaxRun
              THEN [run EXCEPT !.amts = Append(run.amts, amt)]
              ELSE [pre |-> Self, amts |-> <<amt>>]
    /\ tw' = NoTw
    /\ UNCHANGED condFalse

Twist ==
  \E amt \in Amts :
    /\ Call("twist", [NoArgs EXCEPT !.amt = amt], Returns(twist(Self, amt), None, <<>>))
    /\ tw' = [st |-> "twisted", pre |-> Self, amt |-> amt]
    /\ run' = NoRun
    /\ UNCHANGED condFalse

Untwist ==
  /\ Call("untwist", NoArgs, Returns(untwist(Self), None, <<>>))
  /\ tw' = IF tw.st = "twisted" THEN [tw EXCEPT !.st = "untwisted"] ELSE NoTw
  /\ run' = NoRun
  /\ UNCHANGED condFalse

Finish ==
  /\ Call("finish", NoArgs, Returns(finish(Self), None, <<>>))
  /\ tw' = NoTw
  /\ run' = NoRun
  /\ UNCHANGED condFalse

Condition ==
  \E b \in BOOLEAN :
    /\ Call("condition", [NoArgs EXCEPT !.b = b], Returns(condition(Self, b), None, <<>>))
    /\ condFalse' = (condFalse \/ ~b)
    /\ tw' = NoTw
    /\ run' = NoRun

Observe ==
  \E dist \in Dists, x \in Values :
    /\ Call("observe", [NoArgs EXCEPT !.dist = dist, !.x = x], observe(Self, dist, x))
    /\ tw' = NoTw
    /\ run' = NoRun
    /\ UNCHANGED condFalse

Do ==
  \E dist \in Dists, x \in Values :
    /\ Call("do", [NoArgs EXCEPT !.dist = dist, !.x = x], do(Self, dist, x))
    /\ tw' = NoTw
    /\ run' = NoRun
    /\ UNCHANGED condFalse

Sample ==
  \E dist \in Dists, proposal \in Dists \cup {NoProposal} :
    \E o \in sample(Self, dist, proposal) :
      /\ Call("sample", [NoArgs EXCEPT !.dist = dist, !.proposal = proposal], o)
      /\ tw' = NoTw
      /\ run' = NoRun
      /\ UNCHANGED condFalse

Step ==
  /\ Call("step", NoArgs, step(Self))
  /\ tw' = NoTw
  /\ run' = NoRun
  /\ UNCHANGED condFalse

Reset ==
  /\ Call("reset", NoArgs, Returns(reset(Self), None, <<>>))
  /\ tw' = NoTw
  /\ run' = NoRun
  /\ condFalse' = FALSE

\* the beam-search driver selects beam mode and the rank to take
SetBeam ==
  \E k \in 0..MaxBeam :
    /\ Call("set_beam", [NoArgs EXCEPT !.k = k],
            Returns([Self EXCEPT !.mode = "beam", !.beam_idx = k], None, <<>>))
    /\ tw' = NoTw
    /\ run' = NoRun
    /\ UNCHANGED condFalse

\* a direct call dist.argmax(k); the particle is not involved
Argmax ==
  \E dist \in Dists, k \in 0..MaxBeam :
    /\ Call("argmax", [NoArgs EXCEPT !.dist = dist, !.k = k,
                                     !.res = dist_argmax(dist, k)],
            Returns(Self, None, <<"dist.argmax">>))
    /\ tw' = NoTw
    /\ run' = NoRun
    /\ UNCHANGED condFalse

Next ==
  \/ Score
  \/ Twist
  \/ Untwist
  \/ Finish
  \/ Condition
  \/ Observe
  \/ Do
  \/ Sample
  \/ Step
  \/ Reset
  \/ SetBeam
  \/ Argmax

Spec == Init /\ [][Next]_vars


(* ------------------------ fork scenario actions ------------------------ *)
selfvars == <<weight, finished, mode, beam_idx, force_eos, twist_amount,
              last, tw, run, condFalse>>

Exists(i) == pt[i] # NoParticle

InitFork ==
  /\ InitSelf
  /\ heap = Heap0
  /\ pt = [i \in 1..2 |-> IF i = 1 THEN Subclass0 ELSE NoParticle]
  /\ immutable \in {{}, {"ctx"}}
  /\ flast = NoFork
  /\ ap = Ap0
  /\ alast = NoStep

\* particle i made the call op, which left it as s
FCall(op, i, s) ==
  /\ Exists(i)
  /\ flast.nprim < MaxPrims
  /\ InRange(s)
  /\ pt' = [pt EXCEPT ![i] = s]
  /\ flast' = [flast EXCEPT !.op = op, !.who = i, !.obj = 0,
                            !.nprim = flast.nprim + 1, !.pre = NoFork.pre]
  /\ UNCHANGED <<heap, immutable>>
  /\ UNCHANGED <<selfvars, asyncvars>>

\* copy.deepcopy(particle): Model.__deepcopy__
FClone ==
  /\ ~Exists(2)
  /\ Cardinality(Reachable(heap, pt[1], Attrs \ immutable))
       <= Cardinality(FreeIds(heap))
  /\ LET c == deepcopy(pt[1], heap, immutable)
     IN /\ pt' = [pt EXCEPT ![2] = c.cpy]
        /\ heap' = c.heap
  /\ flast' = [flast EXCEPT !.op = "clone", !.who = 1, !.obj = 0,
                            !.pre = NoFork.pre]
  /\ UNCHANGED immutable
  /\ UNCHANGED <<selfvars, asyncvars>>

\* a step of particle i changes in place a list it can reach: list.append(7)
FAppend ==
  \E i \in 1..2 :
    \E o \in Reachable(heap, pt[i], Attrs) :
      /\ Exists(i)
      /\ flast.nmut < MaxMut
      /\ heap' = [heap EXCEPT ![o] = Obj(Append(heap[o].items, IntCell(7)))]
      /\ flast' = [flast EXCEPT !.op = "append", !.who = i, !.obj = o,
                                !.nmut = flast.nmut + 1, !.pre = NoFork.pre]
      /\ UNCHANGED <<pt, immutable>>
      /\ UNCHANGED <<selfvars, asyncvars>>

\* a step of particle i replaces an attribute wholesale: self.a = [8]
FRebind ==
  \E i \in 1..2, a \in Attrs :
    /\ Exists(i)
    /\ flast.nmut < MaxMut
    /\ FreeIds(heap) # {}
    /\ LET o == CHOOSE f \in FreeIds(heap) : Rank(FreeIds(heap), f) = 0
       IN /\ heap' = [heap EXCEPT ![o] = Obj(<<IntCell(8)>>)]
          /\ pt' = [pt EXCEPT ![i][a] = Ref(o)]
          /\ flast' = [flast EXCEPT !.op = "rebind", !.who = i, !.obj = o,
                                    !.nmut = flast.nmut + 1, !.pre = NoFork.pre]
    /\ UNCHANGED immutable
    /\ UNCHANGED <<selfvars, asyncvars>>

FScore == \E i \in 1..2, amt \in Amts : FCall("score", i, score(pt[i], amt))
FTwist == \E i \in 1..2, amt \in Amts : FCall("twist", i, twist(pt[i], amt))
FUntwist == \E i \in 1..2 : FCall("untwist", i, untwist(pt[i]))
FFinish == \E i \in 1..2 : FCall("finish", i, finish(pt[i]))
FCondition == \E i \in 1..2, b \in BOOLEAN : FCall("condition", i, condition(pt[i], b))
FObserve ==
  \E i \in 1..2, dist \in Dists, x \in Values :
    FCall("observe", i, observe(pt[i], dist, x).s)
FSample ==
  \E i \in 1..2, dist \in Dists, proposal \in Dists \cup {NoProposal} :
    \E o \in sample(pt[i], dist, proposal) : FCall("sample", i, o.s)
FSetBeam ==
  \E i \in 1..2, k \in 0..MaxBeam :
    FCall("set_beam", i, [pt[i] EXCEPT !.mode = "beam", !.beam_idx = k])
\* reset() is not counted: it only takes a particle back to where it began
FReset ==
  \E i \in 1..2 :
    /\ Exists(i)
    /\ pt' = [pt EXCEPT ![i] = reset(pt[i])]
    /\ flast' = [flast EXCEPT !.op = "reset", !.who = i, !.obj = 0,
                              !.pre = Base(pt[i])]
    /\ UNCHANGED <<heap, immutable>>
    /\ UNCHANGED <<selfvars, asyncvars>>

\* a particle and its clone, each stepping on its own
NextFork ==
  \/ FClone
  \/ FAppend
  \/ FRebind
  \/ FScore
  \/ FCondition
  \/ FSetBeam

SpecFork == InitFork /\ [][NextFork]_vars

\* one particle of a subclass with attributes, through every primitive
NextSubclass ==
  \/ FAppend
  \/ FRebind
  \/ FScore
  \/ FTwist
  \/ FUntwist
  \/ FFinish
  \/ FCondition
  \/ FObserve
  \/ FSample
  \/ FSetBeam
  \/ FReset

SpecSubclass == InitFork /\ [][NextSubclass]_vars

(* -------------------- asynchronous scenario actions -------------------- *)
InitAsync ==
  /\ InitSelf
  /\ heap = Heap0
  /\ pt = [i \in 1..2 |-> IF i = 1 THEN Subclass0 ELSE NoParticle]
  /\ immutable = {}
  /\ flast = NoFork
  /\ ap = Ap0
  /\ alast = NoStep

\* particle i, not inside a primitive, calls op; o is how far the call gets
AStart(i, fr0, o) ==
  /\ ap[i].fr.at = "idle"
  /\ alast.n < MaxCalls
  /\ InRange(o.s)
  /\ ap' = [ap EXCEPT ![i] = [s |-> o.s, fr |-> o.fr,
                              pre |-> IF o.fr.at = "idle" THEN o.s ELSE ap[i].s,
                              ev |-> IF o.fr.at = "idle" THEN <<>> ELSE o.ev]]
  /\ alast' = [who |-> i, op |-> fr0.op, fr |-> fr0, r |-> Raise(""),
               pre |-> ap[i].s,
               done |-> o.fr.at = "idle", exc |-> o.exc, ret |-> o.ret,
               ev |-> o.ev, n |-> alast.n + 1]
  /\ UNCHANGED <<selfvars, forkvars>>

AScore ==
  \E i \in 1..2, amt \in Amts :
    AStart(i, Frame("score", "start", NoProposal, NoProposal, None, Fin(0)),
           Ends(Returns(score(ap[i].s, amt), None, <<>>), <<>>))
ATwist ==
  \E i \in 1..2, amt \in Amts :
    AStart(i, Frame("twist", "start", NoProposal, NoProposal, None, Fin(0)),
           Ends(Returns(twist(ap[i].s, amt), None, <<>>), <<>>))
AFinish ==
  \E i \in 1..2 :
    AStart(i, Frame("finish", "start", NoProposal, NoProposal, None, Fin(0)),
           Ends(Returns(finish(ap[i].s), None, <<>>), <<>>))

DoAsync ==
  \E i \in 1..2, dist \in Targets, x \in Values :
    LET fr0 == Frame("do_async", "start", dist, NoProposal, x, Fin(0))
    IN AStart(i, fr0, do_async(ap[i].s, fr0))
ObserveAsync ==
  \E i \in 1..2, dist \in Targets, x \in Values :
    LET fr0 == Frame("observe_async", "start", dist, NoProposal, x, Fin(0))
    IN AStart(i, fr0, observe_async(ap[i].s, fr0, Raise("")))
SampleAsync ==
  \E i \in 1..2, dist \in Targets, proposal \in Proposals :
    LET fr0 == Frame("sample_async", "start", dist, proposal, None, Fin(0))
    IN AStart(i, fr0, sample_async(ap[i].s, fr0, Raise("")))

\* the scheduler resolves the query particle i awaits and its coroutine
\* runs on to its next await or its end
Resolve ==
  \E i \in 1..2 :
    /\ ap[i].fr.at # "idle"
    /\ \E r \in Awaited(ap[i].fr) :
         LET o == IF ap[i].fr.op = "observe_async"
                  THEN observe_async(ap[i].s, ap[i].fr, r)
                  ELSE sample_async(ap[i].s, ap[i].fr, r)
         IN /\ InRange(o.s)
            /\ ap' = [ap EXCEPT ![i] = [s |-> o.s, fr |-> o.fr,
                                        pre |-> IF o.fr.at = "idle" THEN o.s
                                                ELSE ap[i].pre,
                                        ev |-> IF o.fr.at = "idle" THEN <<>>
                                               ELSE ap[i].ev \o o.ev]]
            /\ alast' = [who |-> i, op |-> "resolve", fr |-> ap[i].fr, r |-> r,
                         pre |-> ap[i].pre,
                         done |-> o.fr.at = "idle", exc |-> o.exc,
                         ret |-> o.ret, ev |-> ap[i].ev \o o.ev,
                         n |-> alast.n]
    /\ UNCHANGED <<selfvars, forkvars>>

NextAsync ==
  \/ AScore
  \/ ATwist
  \/ AFinish
  \/ DoAsync
  \/ ObserveAsync
  \/ SampleAsync
  \/ Resolve

SpecAsync == InitAsync /\ [][NextAsync]_vars

(* ------------------------------- claims -------------------------------- *)

\* C1 as stated, already for finite amt: twist(amt) immediately followed by
\* untwist() leaves weight and twist_amount exactly as they were before the
\* twist call, in every reachable state (twist_amount # 0 included).
C1_TwistUntwistRestores ==
  (tw.st = "untwisted" /\ IsFin(tw.amt)) =>
    (weight = tw.pre.weight /\ twist_amount = tw.pre.twist_amount)

\* C1 as amended: twist(amt) immediately followed by untwist() leaves
\* twist_amount = 0 and weight = (w + amt) - (t + amt), w and t being weight
\* and twist_amount before the twist; for finite amt that is w - t, so both
\* fields are restored when t was 0, and an earlier pending twist is
\* cancelled too when it was not.
C1_TwistUntwistCancelsAll ==
  tw.st = "untwisted" =>
    /\ twist_amount = Fin(0)
    /\ weight = Sub(Add(tw.pre.weight, tw.amt), Add(tw.pre.twist_amount, tw.amt))
    /\ IsFin(tw.amt) => weight = Sub(tw.pre.weight, tw.pre.twist_amount)
    /\ (IsFin(tw.amt) /\ tw.pre.twist_amount = Fin(0)) =>
         (weight = tw.pre.weight /\ twist_amount = tw.pre.twist_amount)

C1_Witness ==
  /\ tw.st = "untwisted"
  /\ tw.amt = Fin(1)
  /\ tw.pre.twist_amount = Fin(0)
  /\ tw.pre.weight = Fin(-1)
  /\ weight = Fin(-1)

\* C2: once condition(False) has been called, weight is negative infinity
\* and done_stepping() is true, whatever primitives are called afterwards.
C2_ConditionTerminal ==
  condFalse => (weight = NegInf /\ done_stepping(Self))

\* C3 as stated: finished becomes true only inside finish() or
\* condition(False), and no operation of the particle makes it false again.
C3_FinishedTerminal ==
  [][/\ finished => finished'
     /\ (~finished /\ finished') =>
          (last'.op = "finish" \/ (last'.op = "condition" /\ ~last'.b))]_vars

\* C3 as amended: finished becomes true only inside finish() or
\* condition(False), and no operation other than reset() makes it false again.
C3_FinishedUntilReset ==
  [][/\ (finished /\ last'.op # "reset") => finished'
     /\ (~finished /\ finished') =>
          (last'.op = "finish" \/ (last'.op = "condition" /\ ~last'.b))]_vars

C3_Witness ==
  /\ finished
  /\ last.pre.finished
  /\ last.op = "observe"
  /\ last.exc = ""

\* C4: a weighting primitive called on a finished particle raises an error
\* and leaves weight and twist_amount unchanged.
WeightingPrimitives ==
  {"score", "twist", "untwist", "observe", "condition", "finish", "sample"}
C4_FailFastAfterFinish ==
  (last.op \in WeightingPrimitives /\ last.pre.finished) =>
    /\ last.exc # ""
    /\ weight = last.pre.weight
    /\ twist_amount = last.pre.twist_amount

RECURSIVE SumSeq(_)
SumSeq(amts) ==
  IF amts = <<>> THEN Fin(0) ELSE Add(Head(amts), SumSeq(Tail(amts)))

\* C6: after score(a1), ..., score(an) with nothing in between, weight is
\* the weight before the run plus a1 + ... + an, and twist_amount, finished,
\* mode and beam_idx are what they were before the run.
C6_WeightAdditivity ==
  run.amts # <<>> =>
    /\ weight = Add(run.pre.weight, SumSeq(run.amts))
    /\ twist_amount = run.pre.twist_amount
    /\ finished = run.pre.finished
    /\ mode = run.pre.mode
    /\ beam_idx = run.pre.beam_idx

C6_Witness ==
  /\ Len(run.amts) >= 3
  /\ IsFin(weight)
  /\ weight # run.pre.weight
  /\ run.pre.twist_amount # Fin(0)

\* the outcomes of a distribution and their log-probabilities under it
Outcomes(d) ==
  IF d.kind = "Geometric" THEN {IntV(n) : n \in 1..MaxDraw}
  ELSE {Token(n) : n \in 0..(Len(d.log_probs) - 1)}
LogProbOf(d, x) ==
  IF d.kind = "Geometric" THEN Geometric_log_prob_expr(d, x).w
  ELSE IF x.ty = "Token" /\ x.n < Len(d.log_probs) THEN d.log_probs[x.n + 1]
  ELSE NegInf
\* x is a k-th most probable outcome of d, counted from 0
IsKthMostProbable(d, x, k) ==
  /\ x \in Outcomes(d)
  /\ Cardinality({y \in Outcomes(d) : Lt(LogProbOf(d, x), LogProbOf(d, y))}) <= k
  /\ k < Cardinality({y \in Outcomes(d) : Leq(LogProbOf(d, x), LogProbOf(d, y))})

\* C7: for every distribution variant and every rank k it has, argmax(k)
\* returns a pair (value, log_prob(value)) whose value is the k-th most
\* probable outcome, counted from 0 with the most likely outcome first.
C7_ArgmaxContract ==
  (last.op = "argmax" /\ last.dist.kind \in {"Geometric", "TokenCategorical"}
     /\ last.k < Cardinality(Outcomes(last.dist))) =>
    /\ last.res.exc = ""
    /\ last.res.pair
    /\ last.res.w = LogProbOf(last.dist, last.res.x)
    /\ IsKthMostProbable(last.dist, last.res.x, last.k)

\* C8: in beam mode sample(dist) with beam_idx = k returns a value, the same
\* value and score increment whenever it is invoked from the same state, and
\* the value chosen with a smaller beam_idx is at least as probable under dist.
C8_BeamDeterminism ==
  (last.op = "sample" /\ last.pre.mode = "beam" /\ last.proposal = NoProposal
     /\ last.pre.beam_idx < Cardinality(Outcomes(last.dist))) =>
    /\ last.exc = ""
    /\ \A o \in sample(last.pre, last.dist, NoProposal) :
         o.exc = "" /\ o.ret = last.ret /\ o.s.weight = weight
    /\ \A j \in 0..(last.pre.beam_idx - 1) :
         \A o \in sample([last.pre EXCEPT !.beam_idx = j], last.dist, NoProposal) :
           o.exc = "" /\ Leq(LogProbOf(last.dist, last.ret), LogProbOf(last.dist, o.ret))

\* C9: in beam mode sample(dist, proposal) that returns takes
\* (x, w) = d.argmax(beam_idx), d being the proposal if one is given and dist
\* otherwise, returns x, adds dist.log_prob(x) to weight when a proposal was
\* given and w when none was, calls no sample() of a distribution and leaves
\* beam_idx and the other fields unchanged.
C9_BeamScoring ==
  (last.op = "sample" /\ last.pre.mode = "beam" /\ last.exc = "") =>
    LET d == IF last.proposal = NoProposal THEN last.dist ELSE last.proposal
        r == dist_argmax(d, last.pre.beam_idx)
    IN /\ r.exc = "" /\ r.pair
       /\ last.ret = r.x
       /\ weight = Add(last.pre.weight,
                       IF last.proposal = NoProposal THEN r.w
                       ELSE LogProbOf(last.dist, r.x))
       /\ \A i \in DOMAIN last.calls :
            last.calls[i] \notin {"dist.sample", "proposal.sample"}
       /\ Self = [last.pre EXCEPT !.weight = weight]

C9_Witness ==
  /\ last.op = "sample"
  /\ last.pre.mode = "beam"
  /\ last.pre.beam_idx = 1
  /\ last.exc = ""
  /\ last.proposal.kind = "Contract"
  /\ last.dist.kind = "TokenCategorical"
  /\ weight # last.pre.weight

\* C10: in sample mode sample(dist) that returns gives a value drawn from
\* dist and leaves weight unchanged; sample(dist, proposal) that returns
\* gives a value x drawn from the proposal and adds dist.log_prob(x) - q to
\* weight, q being the log-probability of x under the proposal.
C10_SampleCorrection ==
  (last.op = "sample" /\ last.pre.mode = "sample" /\ last.exc = "") =>
    IF last.proposal = NoProposal
    THEN /\ last.ret \in Outcomes(last.dist)
         /\ LogProbOf(last.dist, last.ret) # NegInf
         /\ Self = last.pre
    ELSE /\ last.ret \in Outcomes(last.proposal)
         /\ LogProbOf(last.proposal, last.ret) # NegInf
         /\ weight = Add(last.pre.weight,
                         Sub(LogProbOf(last.dist, last.ret),
                             LogProbOf(last.proposal, last.ret)))
         /\ Self = [last.pre EXCEPT !.weight = weight]

C10_Witness ==
  /\ last.op = "sample"
  /\ last.pre.mode = "sample"
  /\ last.exc = ""
  /\ last.proposal.kind = "TokenCategorical"
  /\ last.dist.kind = "Contract"
  /\ weight = Fin(1)
  /\ last.pre.weight = Fin(0)

\* C14: observe(dist, x), x an outcome of dist, returns x, adds exactly
\* dist.log_prob(x) to weight and leaves finished and twist_amount alone; on
\* a fresh particle observe(Geometric(0.5), 3) leaves weight = 3 * log(0.5).
C14_Observe ==
  (last.op = "observe" /\ last.x \in Outcomes(last.dist)) =>
    /\ last.exc = ""
    /\ last.ret = last.x
    /\ weight = Add(last.pre.weight, LogProbOf(last.dist, last.x))
    /\ finished = last.pre.finished
    /\ twist_amount = last.pre.twist_amount
    /\ (last.dist = Geometric(Half) /\ last.x = IntV(3) /\ last.pre = init) =>
         weight = Fin(-3)

\* C15: do(dist, x) evaluates dist.log_prob(x) exactly once and leaves the
\* particle unchanged; whatever float log_prob returns (negative infinity
\* included), do returns x.
C15_DoFrame ==
  last.op = "do" =>
    /\ last.calls = <<"dist.log_prob">>
    /\ Self = last.pre
    /\ dist_log_prob(last.dist, last.x).exc = "" =>
         (last.exc = "" /\ last.ret = last.x)

C15_Witness ==
  /\ last.op = "do"
  /\ last.exc = ""
  /\ dist_log_prob(last.dist, last.x).w = NegInf
  /\ weight = Fin(1)
  /\ twist_amount = Fin(1)

\* scaled exp: 2^(ExpShift + a) for a finite log-value a, 0 for log(0)
ExpShift == 6
ExpS(a) == IF a = NegInf THEN 0 ELSE Pow2(ExpShift + a.v)
RECURSIVE SumOver(_, _)
SumOver(S, f) ==
  IF S = {} THEN 0
  ELSE LET x == CHOOSE y \in S : TRUE IN f[x] + SumOver(S \ {x}, f)

\* C16: for sample(dist, proposal) in sample mode, each outcome x of the
\* proposal carries proposal probability times weight factor equal to the
\* probability of x under dist, and when the proposal's support covers that
\* of dist the expected weight factor equals that of sampling from dist.
C16_ProposalInvariance ==
  (last.op = "sample" /\ last.pre.mode = "sample" /\ last.exc = ""
     /\ last.proposal # NoProposal /\ IsFin(last.pre.weight)) =>
    LET outs == sample(last.pre, last.dist, last.proposal)
        q(o) == LogProbOf(last.proposal, o.ret)
        factor(o) == Sub(o.s.weight, last.pre.weight)
        contrib == [o \in outs |-> ExpS(Add(q(o), factor(o)))]
        target == [x \in Outcomes(last.dist) |-> ExpS(LogProbOf(last.dist, x))]
    IN /\ \A o \in outs : contrib[o] = ExpS(LogProbOf(last.dist, o.ret))
       /\ Support(last.dist) \subseteq Support(last.proposal) =>
            SumOver(outs, contrib) = SumOver(Outcomes(last.dist), target)

C16_Witness ==
  /\ last.op = "sample"
  /\ last.pre.mode = "sample"
  /\ last.exc = ""
  /\ last.proposal.kind = "Contract"
  /\ last.dist.kind = "TokenCategorical"
  /\ Support(last.dist) \subseteq Support(last.proposal)
  /\ Support(last.dist) # Support(last.proposal)
  /\ weight = Fin(1)

\* C17: finish() leaves finished = true, twist_amount = 0 and weight equal
\* to the weight before minus the twist_amount before; whenever finished
\* becomes true, through finish() or condition(False), twist_amount is 0.
C17_FinishUntwists ==
  /\ last.op = "finish" =>
       /\ finished
       /\ twist_amount = Fin(0)
       /\ weight = Sub(last.pre.weight, last.pre.twist_amount)
  /\ (last.op = "condition" /\ ~last.b) =>
       /\ finished
       /\ twist_amount = Fin(0)
       /\ weight = Sub(Add(last.pre.weight, NegInf), last.pre.twist_amount)
  /\ (finished /\ ~last.pre.finished) => twist_amount = Fin(0)

C17_Witness ==
  /\ last.op = "finish"
  /\ last.pre.twist_amount = Fin(1)
  /\ last.pre.weight = Fin(2)
  /\ weight = Fin(1)

\* C19: weight - twist_amount is left unchanged by twist(amt), untwist() and
\* finish() for every amt and in every state, score and observe add their
\* amount to it, and untwist() after untwist() changes nothing.
C19_UntwistedWeight ==
  /\ last.op \in {"twist", "untwist", "finish"} =>
       Sub(weight, twist_amount) = Sub(last.pre.weight, last.pre.twist_amount)
  /\ last.op = "score" =>
       Sub(weight, twist_amount)
         = Add(Sub(last.pre.weight, last.pre.twist_amount), last.amt)
  /\ (last.op = "observe" /\ last.exc = "") =>
       Sub(weight, twist_amount)
         = Add(Sub(last.pre.weight, last.pre.twist_amount),
               LogProbOf(last.dist, last.x))
  /\ last.op = "untwist" => untwist(Self) = Self

\* C11: for a particle with no immutable properties, once it has been cloned,
\* whatever one of the two particles does (a call of a primitive, replacing
\* an attribute, changing in place a list it reaches, nested lists included)
\* leaves every attribute of the other particle with the value it had
C11_CloneIndependence ==
  [][(immutable = {} /\ Exists(2)) =>
       \A i \in 1..2 :
         i # flast'.who => View(heap', pt'[i]) = View(heap, pt[i])]_vars

\* the clone has appended to a list nested in one of its lists, and the
\* original still looks as it did when constructed
C11_Witness ==
  /\ immutable = {}
  /\ Exists(2)
  /\ flast.op = "append"
  /\ flast.who = 2
  /\ flast.obj \notin Roots(pt[2], Attrs)
  /\ View(heap, pt[1]) = View(Heap0, Subclass0)
  /\ View(heap, pt[2]) # View(heap, pt[1])

\* C12: right after cloning, an attribute named in immutable_properties() is
\* the same object in both particles, every other attribute of the clone has
\* the original's value and reaches no object the original reaches, and the
\* six fields of Model are equal
C12_SelectiveSharing ==
  flast.op = "clone" =>
    /\ \A a \in immutable : pt[2][a] = pt[1][a]
    /\ \A a \in Attrs \ immutable :
         /\ DeepVal(heap, pt[2][a], MaxObj) = DeepVal(heap, pt[1][a], MaxObj)
         /\ pt[2][a].ref = pt[1][a].ref
    /\ Reachable(heap, pt[2], Attrs \ immutable)
         \cap Reachable(heap, pt[1], Attrs) = {}
    /\ Base(pt[2]) = Base(pt[1])

\* a particle that declares ctx immutable, has scored, is in beam mode and
\* has changed a list, has just been cloned
C12_Witness ==
  /\ flast.op = "clone"
  /\ immutable = {"ctx"}
  /\ pt[1].weight # Fin(0)
  /\ pt[1].mode = "beam"
  /\ heap[1] # Heap0[1]
  /\ pt[2].hist # pt[1].hist

\* every amount score can be called with
ScoreArgs == {Fin(n) : n \in (0 - 2 * MaxW)..(2 * MaxW)} \cup {NegInf, PosInf, NaN}

\* C20: reset() leaves the six fields of Model as __init__ sets them and
\* every attribute of the subclass, and every list, as it was; any other
\* operation changes weight only by adding to it, as score does
C20_Reset ==
  [][/\ flast'.op = "reset" =>
          /\ Base(pt'[flast'.who]) = init
          /\ \A a \in Attrs : pt'[flast'.who][a] = pt[flast'.who][a]
          /\ heap' = heap
     /\ flast'.op # "reset" =>
          \A i \in 1..2 :
            \E a \in ScoreArgs : pt'[i].weight = Add(pt[i].weight, a)]_vars

\* reset() has acted on a finished particle in beam mode with weight -inf
\* that had changed one of its lists
C20_Witness ==
  /\ flast.op = "reset"
  /\ flast.pre.finished
  /\ flast.pre.weight = NegInf
  /\ flast.pre.mode = "beam"
  /\ heap # Heap0
  /\ Base(pt[1]) = init

\* what the synchronous primitive does from state s when called with the
\* arguments of the coroutine fr and the distribution answers as it answered
\* the coroutine (r is the value the coroutine's last await resumed with)
SyncOutcome(s, fr, r) ==
  CASE fr.op = "do_async" -> do(s, fr.dist, fr.x)
    [] fr.op = "observe_async" -> observe(s, fr.dist, fr.x)
    [] fr.op = "sample_async" /\ fr.proposal = NoProposal ->
         sample_direct(s, fr.dist, r)
    [] fr.op = "sample_async" /\ fr.proposal # NoProposal /\ fr.at = "sample" ->
         sample_proposal(s, fr.dist, r)
    [] OTHER -> sample_proposal(s, fr.dist, Pair(fr.x, fr.q))
AsyncPrimitives == {"do_async", "observe_async", "sample_async"}

\* C13: in sample mode, when every awaited query resolves to what its
\* synchronous counterpart returns, a call of sample_async, observe_async or
\* do_async ends as the call of sample, observe or do from the same state
\* ends: same returned value (or exception), same particle afterwards
C13_SyncAsyncEquivalence ==
  (alast.done /\ alast.fr.op \in AsyncPrimitives /\ alast.pre.mode = "sample") =>
    LET o == SyncOutcome(alast.pre, alast.fr, alast.r)
    IN /\ ap[alast.who].s = o.s
       /\ alast.exc = o.exc
       /\ alast.ret = o.ret

\* what a coroutine does, in the order its code does it
Expected(fr) ==
  IF fr.op = "observe_async" THEN <<"dist.log_prob_async", "score">>
  ELSE IF fr.proposal = NoProposal THEN <<"dist.sample_async">>
  ELSE <<"proposal.sample_async", "dist.log_prob_async", "score">>

\* C18: with two particles running asynchronous primitives concurrently and
\* the scheduler resolving their queries in any order, a particle is
\* suspended only at an await of sample_async or log_prob_async; while it is
\* suspended it is as it was when the primitive was called; what it has
\* done so far is the beginning of what its code does in order (the target's
\* log_prob query is issued after the proposal's sample, score comes once,
\* last); and when the primitive ends the particle is as the synchronous
\* primitive would leave it from the same state with the same answers
C18_TransparentInterleaving ==
  /\ \A i \in 1..2 :
       /\ ap[i].fr.at \in {"idle", "sample", "log_prob"}
       /\ ap[i].fr.at # "idle" =>
            /\ ap[i].fr.op \in {"observe_async", "sample_async"}
            /\ ap[i].fr.query.m =
                 (IF ap[i].fr.at = "sample" THEN "sample_async" ELSE "log_prob_async")
            /\ ap[i].s = ap[i].pre
            /\ ap[i].ev =
                 SubSeq(Expected(ap[i].fr), 1,
                        IF ap[i].fr.op = "sample_async" /\ ap[i].fr.at = "log_prob"
                        THEN 2 ELSE 1)
  /\ (alast.done /\ alast.fr.op \in {"observe_async", "sample_async"}) =>
       /\ ap[alast.who].s = SyncOutcome(alast.pre, alast.fr, alast.r).s
       /\ alast.exc = "" => alast.ev = Expected(alast.fr)
       /\ alast.exc # "" =>
            /\ alast.ev = SubSeq(Expected(alast.fr), 1, Len(alast.ev))
            /\ \A k \in DOMAIN alast.ev : alast.ev[k] # "score"

\* a sample_async with a proposal has just ended with a changed weight
\* while the other particle, which had scored before, is suspended between
\* the two awaits of its own sample_async
C18_Witness ==
  /\ alast.op = "resolve"
  /\ alast.done
  /\ alast.fr.op = "sample_async"
  /\ alast.fr.proposal # NoProposal
  /\ alast.exc = ""
  /\ ap[alast.who].s.weight # alast.pre.weight
  /\ \E j \in 1..2 :
       /\ j # alast.who
       /\ ap[j].fr.op = "sample_async"
       /\ ap[j].fr.at = "log_prob"
       /\ ap[j].s # init

====
